---- MODULE Spec2Model ----
(***************************************************************************)
(* Model of the print-order server (server.js): the two JSON stores        *)
(* (data/orders.json, data/files.json), the uploads/ blob directory, and   *)
(* the REST handlers over them.  Every handler is an async function; each  *)
(* `await` is a point where another request may run, so a handler is one   *)
(* action per awaited step.  The client wrapper (services/api.ts) is       *)
(* modelled for the admin login.  The upload widget (FileUploader) is      *)
(* modelled with its React state, its async calls in flight, and the       *)
(* values it last passed to its three callbacks.                           *)
(***************************************************************************)
EXTENDS Integers, Sequences, FiniteSets, TLC

\* ------------------------------------------------------------------ bounds

\* Request slots: how many requests may be in flight at once.
MaxReq == 2
\* Milliseconds the clock may advance past the start of the run.
MaxClock == 1
\* Orders the store may hold (create-order is not accepted beyond it).
MaxOrders == 2
\* File metadata records the store may hold, and files in one submission.
MaxFiles == 2
\* Math.round(Math.random() * 1E9) is drawn from 0..MaxRandom.
MaxRandom == 1
\* fs.unlink calls that may fail on a file that is there.
MaxFaults == 2
\* Files the upload widget may hold, and files in one drop or selection.
MaxHeld == 2
\* Calls of the widget (handleFiles, removeFile) that may be in flight.
MaxCalls == 2
\* Math.floor(Math.random() * 20) + 1 is drawn from 1..MaxFallback.
MaxFallback == 2

Slots == 1..MaxReq
CallSlots == 1..MaxCalls

\* ------------------------------------------------------- JSON and records

\* A JSON object is a function from its keys to values.  UNDEFINED stands
\* for JavaScript's undefined: the value of a missing property, and a value
\* JSON.stringify leaves out.
UNDEFINED == "<undefined>"

\* obj[key] in JavaScript: undefined when the property is missing.
Get(obj, key) == IF key \in DOMAIN obj THEN obj[key] ELSE UNDEFINED

\* obj[key] = value (in memory: the key is present even when value is
\* undefined).
SetField(obj, key, value) ==
    [k \in (DOMAIN obj) \cup {key} |-> IF k = key THEN value ELSE obj[k]]

\* The properties that hold a number or a boolean (never undefined); every
\* other property holds a string or undefined.
ScalarKeys == {"size", "success"}

\* JSON.parse(JSON.stringify(obj)): properties whose value is undefined are
\* dropped.
JsonObject(obj) ==
    [k \in {j \in DOMAIN obj : j \in ScalarKeys \/ obj[j] # UNDEFINED} |->
        obj[k]]

\* JSON.parse(JSON.stringify(list)) for an array of objects.
JsonArray(list) == [i \in 1..Len(list) |-> JsonObject(list[i])]

\* ------------------------------------------------------------------ clock

\* The run starts at 2024-01-01T00:00:00.000Z, which is Date.now() =
\* 1704067200000; `clock` counts the milliseconds since then (below 1000).
EpochSeconds == "1704067200"
EpochIso == "2024-01-01T00:00:00"

Pad3(n) ==
    IF n < 10 THEN "00" \o ToString(n)
    ELSE IF n < 100 THEN "0" \o ToString(n)
    ELSE ToString(n)

\* String(Date.now()) at clock value t.
DateNow(t) == EpochSeconds \o Pad3(t)

\* new Date().toISOString() at clock value t.
ToISOString(t) == EpochIso \o "." \o Pad3(t) \o "Z"

\* ----------------------------------------------------------------- inputs

\* Bodies a client may POST to /api/orders: arbitrary fields, possibly
\* carrying orderId, orderDate and status of its own.
OrderBodies ==
    { [name |-> "ann"],
      [name |-> "bob", orderId |-> "ORD-1", orderDate |-> "never",
       status |-> "completed"] }

\* Bodies a client may PUT to /api/orders/:orderId: {status}, or a body
\* with no status property.
StatusBodies == { [status |-> "completed"], [note |-> "x"] }

\* :orderId values a client may ask for: ids the server can have stamped,
\* the id a client body carried, and one no order has.
OrderIdParams ==
    {"ORD-" \o DateNow(t) : t \in 0..MaxClock} \cup {"ORD-1", "ORD-none"}

\* Files a client may submit (multer's originalname, size, mimetype).
ClientFiles ==
    { [originalname |-> "a.pdf", size |-> 120000,
       mimetype |-> "application/pdf"],
      [originalname |-> "b.doc", size |-> 40000,
       mimetype |-> "application/msword"] }

\* Multipart submissions: no file (or no `files` part at all), or up to
\* MaxFiles files.
Batches ==
    UNION {[1..n -> ClientFiles] : n \in 0..MaxFiles}

\* Files a user may drop on the widget or pick (File.name, .type, .size),
\* with what pdfjs makes of the content: whether it parses, and its
\* numPages.  The last one has a MIME type the widget does not allow.
WidgetFiles ==
    { [name |-> "a.pdf", type |-> "application/pdf", size |-> 120000,
       parses |-> TRUE, numPages |-> 4],
      [name |-> "c.pdf", type |-> "application/pdf", size |-> 70000,
       parses |-> FALSE, numPages |-> 0],
      [name |-> "b.doc", type |-> "application/msword", size |-> 40000,
       parses |-> FALSE, numPages |-> 0],
      [name |-> "d.docx",
       type |-> "application/vnd.openxmlformats-officedocument.wordprocessingml.document",
       size |-> 120000, parses |-> FALSE, numPages |-> 0],
      [name |-> "e.png", type |-> "image/png", size |-> 90000,
       parses |-> FALSE, numPages |-> 0] }

\* e.dataTransfer.files / e.target.files when handleFiles is called: one to
\* MaxHeld files.
Drops == UNION {[1..n -> WidgetFiles] : n \in 1..MaxHeld}

\* Credentials a client may submit; UNDEFINED is a missing field.
Usernames == {"admin", "root", UNDEFINED}
Passwords == {"xerox123", "admin", UNDEFINED}

\* ------------------------------------------------------------------ state

VARIABLES
    clock,          \* Date.now(), in ms since the start of the run
    ordersExists,   \* data/orders.json exists
    ordersFile,     \* its parsed content, an array of order records
    ordersCorrupt,  \* it holds what a failed write left: JSON.parse throws
    filesExists,    \* data/files.json exists
    filesFile,      \* its parsed content, an array of file metadata records
    filesCorrupt,   \* it holds what a failed write left: JSON.parse throws
    blobs,          \* the paths of the files in uploads/
    faults,         \* unlink calls that failed on a file that is there
    req,            \* per slot: the request in flight and its locals
    lastRes,        \* the response sent last
    \* history (not program state):
    created,        \* orders created since the last delete-all, each with
                    \* the status last set on its orderId (kept by the
                    \* one-at-a-time specification)
    cleared,        \* a delete-all succeeded and no create wrote since
    lastWrite,      \* the last write of orders.json: what it replaced
    \* the upload widget:
    heldFiles,      \* useState files: the files held, in order
    selectedPages,  \* useState selectedPages: a Set, in insertion order
    preview,        \* previewOpen, selectedFile, numPages, and whether the
                    \* Document has loaded (its pages are rendered)
    isProcessing,   \* useState isProcessing
    calls,          \* per slot: a handleFiles or removeFile call in flight
    storage,        \* the names of the files fileStorage has saved
    reported,       \* the last arguments of onFilesChange,
                    \* onPageCountChange and onPageRangeChange
    \* history (not program state):
    toggled,        \* the pages clicked an odd number of times
    lastCall        \* the last call of handleFiles or removeFile: which,
                    \* how many files it was given, and how many of them
                    \* have a type outside the allow-list

server == <<clock, ordersExists, ordersFile, ordersCorrupt, filesExists,
            filesFile, filesCorrupt, blobs, faults, req, lastRes, created,
            cleared, lastWrite>>

widget == <<heldFiles, selectedPages, preview, isProcessing, calls, storage,
            reported, toggled, lastCall>>

vars == <<server, widget>>

orderStore == <<ordersExists, ordersFile, ordersCorrupt>>
fileStore == <<filesExists, filesFile, filesCorrupt, blobs, faults>>
history == <<created, cleared>>

NoObject == [none |-> "none"]

\* A free slot.  orders, orderIndex, newOrder are the order handlers'
\* locals; incoming is the multipart submission, stored is multer's
\* req.files so far, files, uploadedFiles and next are the file handlers'
\* locals.  overlapped and attempts are history: the writes of orders.json
\* since this request read it (counted to 2), and the unlink calls made.
IdleReq ==
    [route |-> "idle", pc |-> "idle", body |-> NoObject, orderId |-> "",
     orders |-> <<>>, orderIndex |-> 0, newOrder |-> NoObject,
     incoming |-> <<>>, stored |-> <<>>, files |-> <<>>,
     uploadedFiles |-> <<>>, next |-> 0,
     overlapped |-> 0, attempts |-> <<>>]

\* res.status(code).json(object).  History: `request` is what the answered
\* request submitted and did, where a handler records it.
ObjectRes(route, code, object) ==
    [route |-> route, status |-> code, kind |-> "object",
     body |-> <<JsonObject(object)>>, request |-> IdleReq]

\* res.status(code).json(array)
ArrayRes(route, code, array) ==
    [route |-> route, status |-> code, kind |-> "array",
     body |-> JsonArray(array), request |-> IdleReq]

\* selectedFile === null
NoFile ==
    [name |-> "", type |-> "", size |-> 0, parses |-> FALSE, numPages |-> 0]

\* A free call slot.  closure is the `files` the call captured, validFiles
\* and saved the batch of handleFiles and how many of it have been handed
\* to fileStorage; fileList, next and totalPages are calculateTotalPages'
\* argument, the index of the PDF it is parsing, and its sum so far.
IdleCall ==
    [kind |-> "idle", pc |-> "idle", closure |-> <<>>, validFiles |-> <<>>,
     saved |-> 0, fileList |-> <<>>, next |-> 0, totalPages |-> 0]

\* The widget as mounted: nothing held, nothing selected, the dialog
\* closed, numPages null (0), and no callback called yet.
WidgetInit ==
    /\ heldFiles = <<>>
    /\ selectedPages = <<>>
    /\ preview = [open |-> FALSE, selectedFile |-> NoFile, numPages |-> 0,
                  loaded |-> FALSE]
    /\ isProcessing = FALSE
    /\ calls = [c \in CallSlots |-> IdleCall]
    /\ storage = {}
    /\ reported = [files |-> <<>>, pageCount |-> -1, pageRange |-> ""]
    /\ toggled = {}
    /\ lastCall = [kind |-> "none", given |-> 0, disallowed |-> 0]

Init ==
    /\ WidgetInit
    /\ clock = 0
    /\ ordersExists = FALSE
    /\ ordersFile = <<>>
    /\ ordersCorrupt = FALSE
    /\ filesExists = FALSE
    /\ filesFile = <<>>
    /\ filesCorrupt = FALSE
    /\ blobs = {}
    /\ faults = 0
    /\ req = [r \in Slots |-> IdleReq]
    /\ lastRes = [route |-> "none", status |-> 0, kind |-> "object",
                  body |-> <<NoObject>>, request |-> IdleReq]
    /\ created = <<>>
    /\ cleared = FALSE
    /\ lastWrite = [route |-> "none", pre |-> <<>>]

\* Time passes.
Tick ==
    /\ clock < MaxClock
    /\ clock' = clock + 1
    /\ UNCHANGED <<orderStore, fileStore, req, lastRes, lastWrite>>

\* ----------------------------------------------------------- order store

\* readOrders(): the parsed file, or [] when the file does not exist
\* (ENOENT).  On a file that does not parse it throws: the handlers that
\* read carry ~ordersCorrupt, and the failing reads are actions of their
\* own.
readOrders == IF ordersExists THEN ordersFile ELSE <<>>

\* writeOrders(orders): the whole file is replaced by the stringified list.
\* History: lastWrite notes the handler and the content replaced.
writeOrders(route, orders) ==
    /\ ordersExists' = TRUE
    /\ ordersFile' = JsonArray(orders)
    /\ ordersCorrupt' = FALSE
    /\ lastWrite' = [route |-> route, pre |-> readOrders]

\* History: slot q, when it has read orders.json and not yet written, has
\* been overlapped by one more write (of slot r).
Overlap(r, q) ==
    IF q # r /\ req[q].pc = "write"
       /\ req[q].route \in {"createOrder", "updateStatus"}
    THEN [req[q] EXCEPT !.overlapped = IF @ < 2 THEN @ + 1 ELSE 2]
    ELSE req[q]

\* Faulty variant of StampOrder: the body is spread last, so a client's own
\* orderId, orderDate and status win.
StampOrderClientWins(body, now) ==
    [k \in (DOMAIN body) \cup {"orderId", "orderDate", "status"} |->
        IF k \in DOMAIN body THEN body[k]
        ELSE CASE k = "orderId" -> "ORD-" \o DateNow(now)
               [] k = "orderDate" -> ToISOString(now)
               [] OTHER -> "pending"]

\* { ...req.body, orderId: `ORD-${Date.now()}`, orderDate: new
\* Date().toISOString(), status: 'pending' }, both clock readings (taken
\* in the same synchronous block) being `now`.
StampOrder(body, now) ==
    [k \in (DOMAIN body) \cup {"orderId", "orderDate", "status"} |->
        CASE k = "orderId" -> "ORD-" \o DateNow(now)
          [] k = "orderDate" -> ToISOString(now)
          [] k = "status" -> "pending"
          [] OTHER -> body[k]]

\* orders.push(newOrder)
PushOrder(orders, newOrder) == Append(orders, newOrder)

\* orders.findIndex(order => order.orderId === orderId), 1-based; 0 is
\* JavaScript's -1.
FindIndex(orders, orderId) ==
    IF \E i \in 1..Len(orders) : Get(orders[i], "orderId") = orderId
    THEN CHOOSE i \in 1..Len(orders) :
            /\ Get(orders[i], "orderId") = orderId
            /\ \A j \in 1..(i - 1) : Get(orders[j], "orderId") # orderId
    ELSE 0

\* Faulty variant of AssignStatus: the status is set on every order that
\* has the orderId of the one found.
AssignStatusAll(orders, orderIndex, status) ==
    [i \in 1..Len(orders) |->
        IF Get(orders[i], "orderId") = Get(orders[orderIndex], "orderId")
        THEN SetField(orders[i], "status", status)
        ELSE orders[i]]

\* orders[orderIndex].status = status
AssignStatus(orders, orderIndex, status) ==
    [orders EXCEPT ![orderIndex] = SetField(@, "status", status)]

\* GET /api/orders
ListOrders(r) ==
    /\ req[r].pc = "idle"
    /\ ~ordersCorrupt
    /\ lastRes' = ArrayRes("listOrders", 200, readOrders)
    /\ UNCHANGED <<clock, orderStore, fileStore, req, lastWrite>>

\* POST /api/orders, up to `await writeOrders(orders)`: the list is read,
\* the order stamped and pushed.
CreateRead(r) ==
    /\ req[r].pc = "idle"
    /\ ~ordersCorrupt
    /\ Len(readOrders) < MaxOrders
    /\ \E body \in OrderBodies :
        LET newOrder == StampOrder(body, clock)
        IN req' = [req EXCEPT ![r] =
                     [IdleReq EXCEPT !.route = "createOrder",
                                     !.pc = "write",
                                     !.body = body,
                                     !.orders = PushOrder(readOrders, newOrder),
                                     !.newOrder = newOrder]]
    /\ UNCHANGED <<clock, orderStore, fileStore, lastRes, lastWrite>>

\* Faulty variant of CreateWrite: the list is read again at the write, and
\* the order appended to what the file holds by then.
CreateWriteFresh(r) ==
    /\ req[r].pc = "write"
    /\ req[r].route = "createOrder"
    /\ writeOrders("createOrder", PushOrder(readOrders, req[r].newOrder))
    /\ lastRes' = ObjectRes("createOrder", 200, req[r].newOrder)
    /\ req' = [q \in Slots |-> IF q = r THEN IdleReq ELSE Overlap(r, q)]
    /\ UNCHANGED <<clock, fileStore>>

\* POST /api/orders, the write and the response.
CreateWrite(r) ==
    /\ req[r].pc = "write"
    /\ req[r].route = "createOrder"
    /\ writeOrders("createOrder", req[r].orders)
    /\ lastRes' = ObjectRes("createOrder", 200, req[r].newOrder)
    /\ req' = [q \in Slots |-> IF q = r THEN IdleReq ELSE Overlap(r, q)]
    /\ UNCHANGED <<clock, fileStore>>

\* Faulty variant of UpdateNotFound: the list is written back before the
\* 404 is sent.
UpdateNotFoundWrites(r) ==
    /\ req[r].pc = "idle"
    /\ ~ordersCorrupt
    /\ \E orderId \in OrderIdParams, body \in StatusBodies :
        /\ FindIndex(readOrders, orderId) = 0
        /\ lastRes' = [ObjectRes("updateStatus", 404,
                                 [error |-> "Order not found"])
                          EXCEPT !.request =
                             [IdleReq EXCEPT !.route = "updateStatus",
                                             !.orderId = orderId,
                                             !.body = body]]
    /\ writeOrders("updateStatus", readOrders)
    /\ UNCHANGED <<clock, fileStore, req>>

\* PUT /api/orders/:orderId with no matching order: 404, nothing written.
UpdateNotFound(r) ==
    /\ req[r].pc = "idle"
    /\ ~ordersCorrupt
    /\ \E orderId \in OrderIdParams, body \in StatusBodies :
        /\ FindIndex(readOrders, orderId) = 0
        /\ lastRes' = [ObjectRes("updateStatus", 404,
                                 [error |-> "Order not found"])
                          EXCEPT !.request =
                             [IdleReq EXCEPT !.route = "updateStatus",
                                             !.orderId = orderId,
                                             !.body = body]]
    /\ UNCHANGED <<clock, orderStore, fileStore, req, lastWrite>>

\* PUT /api/orders/:orderId with a matching order, up to `await
\* writeOrders(orders)`: the status is set in the list that was read.
UpdateRead(r) ==
    /\ req[r].pc = "idle"
    /\ ~ordersCorrupt
    /\ \E orderId \in OrderIdParams, body \in StatusBodies :
        LET orders == readOrders
            orderIndex == FindIndex(orders, orderId)
        IN /\ orderIndex # 0
           /\ req' = [req EXCEPT ![r] =
                        [IdleReq EXCEPT
                            !.route = "updateStatus",
                            !.pc = "write",
                            !.body = body,
                            !.orderId = orderId,
                            !.orderIndex = orderIndex,
                            !.orders = AssignStatus(orders, orderIndex,
                                                    Get(body, "status"))]]
    /\ UNCHANGED <<clock, orderStore, fileStore, lastRes, lastWrite>>

\* PUT /api/orders/:orderId, the write and the response.
UpdateWrite(r) ==
    /\ req[r].pc = "write"
    /\ req[r].route = "updateStatus"
    /\ writeOrders("updateStatus", req[r].orders)
    /\ lastRes' = ObjectRes("updateStatus", 200,
                            req[r].orders[req[r].orderIndex])
    /\ req' = [q \in Slots |-> IF q = r THEN IdleReq ELSE Overlap(r, q)]
    /\ UNCHANGED <<clock, fileStore>>

\* Faulty variant of DeleteOrders: the confirmation is sent and nothing is
\* written.
DeleteOrdersNoWrite(r) ==
    /\ req[r].pc = "idle"
    /\ lastRes' = ObjectRes("deleteOrders", 200,
                            [message |-> "All orders deleted"])
    /\ UNCHANGED <<clock, orderStore, fileStore, req, lastWrite>>

\* DELETE /api/orders
DeleteOrders(r) ==
    /\ req[r].pc = "idle"
    /\ writeOrders("deleteOrders", <<>>)
    /\ lastRes' = ObjectRes("deleteOrders", 200,
                            [message |-> "All orders deleted"])
    /\ req' = [q \in Slots |-> Overlap(r, q)]
    /\ UNCHANGED <<clock, fileStore>>

\* ------------------------------------------------------------ file store

\* readFiles(): the parsed file, or [] when the file does not exist
\* (ENOENT).  On a file that does not parse it throws: the handlers that
\* read carry ~filesCorrupt, and the failing reads are actions of their
\* own.
readFiles == IF filesExists THEN filesFile ELSE <<>>

\* writeFiles(files): the whole file is replaced by the stringified list.
writeFiles(files) ==
    /\ filesExists' = TRUE
    /\ filesFile' = JsonArray(files)
    /\ filesCorrupt' = FALSE

\* multer's filename callback: Date.now() + '-' + Math.round(Math.random()
\* * 1E9) + '-' + file.originalname, `random` being the rounded draw.
Filename(now, random, originalname) ==
    DateNow(now) \o "-" \o ToString(random) \o "-" \o originalname

\* What multer's disk storage leaves in req.files for one stored file:
\* destination 'uploads/', the generated filename, and their join as path.
StoredFile(file, filename) ==
    [originalname |-> file.originalname, size |-> file.size,
     mimetype |-> file.mimetype, filename |-> filename,
     path |-> "uploads/" \o filename]

\* req.files.map(file => ({name, size, type, path, serverPath}))
UploadedFiles(files) ==
    [i \in 1..Len(files) |->
        [name |-> files[i].originalname,
         size |-> files[i].size,
         type |-> files[i].mimetype,
         path |-> "/uploads/" \o files[i].filename,
         serverPath |-> files[i].path]]

\* files.push(...uploadedFiles)
PushFiles(files, uploadedFiles) == files \o uploadedFiles

\* POST /api/upload: the multipart submission arrives.
UploadBegin(r) ==
    /\ req[r].pc = "idle"
    /\ \E incoming \in Batches :
        /\ Len(readFiles) + Len(incoming) <= MaxFiles
        /\ req' = [req EXCEPT ![r] =
                     [IdleReq EXCEPT !.route = "upload", !.pc = "store",
                                     !.incoming = incoming]]
    /\ UNCHANGED <<clock, orderStore, fileStore, lastRes, lastWrite>>

\* upload.array('files'): multer names the next file of the submission and
\* writes it under uploads/ (replacing a file of that name).
UploadStore(r) ==
    /\ req[r].pc = "store"
    /\ Len(req[r].stored) < Len(req[r].incoming)
    /\ \E random \in 0..MaxRandom :
        LET file == req[r].incoming[Len(req[r].stored) + 1]
            stored == StoredFile(file,
                                 Filename(clock, random, file.originalname))
        IN /\ blobs' = blobs \cup {stored.path}
           /\ req' = [req EXCEPT ![r].stored = Append(@, stored)]
    /\ UNCHANGED <<clock, orderStore, filesExists, filesFile, filesCorrupt,
                   faults, lastRes, lastWrite>>

\* Faulty variant of UploadEmpty: the 400 is sent after the list has been
\* read and written back.
UploadEmptyWrites(r) ==
    /\ req[r].pc = "store"
    /\ ~filesCorrupt
    /\ Len(req[r].stored) = Len(req[r].incoming)
    /\ Len(req[r].stored) = 0
    /\ writeFiles(readFiles)
    /\ lastRes' = ObjectRes("upload", 400, [error |-> "No files uploaded"])
    /\ req' = [req EXCEPT ![r] = IdleReq]
    /\ UNCHANGED <<clock, orderStore, blobs, faults, lastWrite>>

\* The upload handler when req.files is missing or empty: 400 before
\* anything is read.
UploadEmpty(r) ==
    /\ req[r].pc = "store"
    /\ Len(req[r].stored) = Len(req[r].incoming)
    /\ Len(req[r].stored) = 0
    /\ lastRes' = ObjectRes("upload", 400, [error |-> "No files uploaded"])
    /\ req' = [req EXCEPT ![r] = IdleReq]
    /\ UNCHANGED <<clock, orderStore, fileStore, lastWrite>>

\* The upload handler up to `await writeFiles(files)`: the list is read and
\* the new records pushed.
UploadRead(r) ==
    /\ req[r].pc = "store"
    /\ ~filesCorrupt
    /\ Len(req[r].stored) = Len(req[r].incoming)
    /\ Len(req[r].stored) # 0
    /\ LET uploadedFiles == UploadedFiles(req[r].stored)
       IN req' = [req EXCEPT ![r].pc = "write",
                             ![r].uploadedFiles = uploadedFiles,
                             ![r].files = PushFiles(readFiles, uploadedFiles)]
    /\ UNCHANGED <<clock, orderStore, fileStore, lastRes, lastWrite>>

\* The upload handler's write and response.
UploadWrite(r) ==
    /\ req[r].pc = "write"
    /\ req[r].route = "upload"
    /\ writeFiles(req[r].files)
    /\ lastRes' = ArrayRes("upload", 200, req[r].uploadedFiles)
    /\ req' = [req EXCEPT ![r] = IdleReq]
    /\ UNCHANGED <<clock, orderStore, blobs, faults, lastWrite>>

\* GET /api/files
ListFiles(r) ==
    /\ req[r].pc = "idle"
    /\ ~filesCorrupt
    /\ lastRes' = ArrayRes("listFiles", 200, readFiles)
    /\ UNCHANGED <<clock, orderStore, fileStore, req, lastWrite>>

\* DELETE /api/files up to the loop: the list is read.
DeleteFilesRead(r) ==
    /\ req[r].pc = "idle"
    /\ ~filesCorrupt
    /\ req' = [req EXCEPT ![r] =
                 [IdleReq EXCEPT !.route = "deleteFiles", !.pc = "unlink",
                                 !.files = readFiles, !.next = 1]]
    /\ UNCHANGED <<clock, orderStore, fileStore, lastRes, lastWrite>>

\* One turn of `for (const file of files)`, the unlink succeeding.  A record
\* with no serverPath is passed over.
DeleteFilesUnlink(r) ==
    /\ req[r].pc = "unlink"
    /\ req[r].next <= Len(req[r].files)
    /\ LET serverPath == Get(req[r].files[req[r].next], "serverPath")
       IN IF serverPath = UNDEFINED
          THEN /\ blobs' = blobs
               /\ req' = [req EXCEPT ![r].next = @ + 1]
          ELSE /\ serverPath \in blobs
               /\ blobs' = blobs \ {serverPath}
               /\ req' = [req EXCEPT
                            ![r].next = @ + 1,
                            ![r].attempts = Append(@, <<serverPath, TRUE>>)]
    /\ UNCHANGED <<clock, orderStore, filesExists, filesFile, filesCorrupt,
                   faults, lastRes, lastWrite>>

\* Faulty variant of AfterUnlinkError: the catch is around the loop, so the
\* first failure ends it.
AbortOnUnlinkError(request, serverPath) ==
    [request EXCEPT !.next = Len(request.files) + 1,
                    !.attempts = Append(@, <<serverPath, FALSE>>)]

\* What the loop does when fs.unlink throws: the catch logs, and the loop
\* goes on with the next file.
AfterUnlinkError(request, serverPath) ==
    [request EXCEPT !.next = @ + 1,
                    !.attempts = Append(@, <<serverPath, FALSE>>)]

\* One turn of the loop, fs.unlink failing: the blob is not there (ENOENT),
\* or it is there and cannot be removed (EACCES, EBUSY, ...).
DeleteFilesUnlinkFail(r) ==
    /\ req[r].pc = "unlink"
    /\ req[r].next <= Len(req[r].files)
    /\ LET serverPath == Get(req[r].files[req[r].next], "serverPath")
       IN /\ serverPath # UNDEFINED
          /\ serverPath \in blobs => faults < MaxFaults
          /\ faults' = IF serverPath \in blobs THEN faults + 1 ELSE faults
          /\ req' = [req EXCEPT ![r] = AfterUnlinkError(@, serverPath)]
    /\ UNCHANGED <<clock, orderStore, filesExists, filesFile, filesCorrupt,
                   blobs, lastRes, lastWrite>>

\* DELETE /api/files after the loop: the list is emptied, the confirmation
\* sent.
DeleteFilesWrite(r) ==
    /\ req[r].pc = "unlink"
    /\ req[r].next > Len(req[r].files)
    /\ writeFiles(<<>>)
    /\ lastRes' = [ObjectRes("deleteFiles", 200,
                             [message |-> "All files deleted"])
                      EXCEPT !.request = req[r]]
    /\ req' = [req EXCEPT ![r] = IdleReq]
    /\ UNCHANGED <<clock, orderStore, blobs, faults, lastWrite>>

\* ------------------------------------------------------------ admin login

\* Faulty variant of ValidCredentials: either field matching is enough.
EitherCredential(username, password) ==
    username = "admin" \/ password = "xerox123"

\* username === 'admin' && password === 'xerox123'
ValidCredentials(username, password) ==
    username = "admin" /\ password = "xerox123"

\* response.ok: a status in 200..299.
ResponseOk(res) == res.status >= 200 /\ res.status <= 299

\* adminAPI.login: throws on a response that is not ok, returns the parsed
\* body otherwise.
AdminLogin(res) ==
    IF ~ResponseOk(res)
    THEN [outcome |-> "throw", value |-> [message |-> "Invalid credentials"]]
    ELSE [outcome |-> "return", value |-> res.body[1]]

\* POST /api/admin/login
Login(r) ==
    /\ req[r].pc = "idle"
    /\ \E username \in Usernames, password \in Passwords :
        lastRes' =
          [(IF ValidCredentials(username, password)
            THEN ObjectRes("login", 200,
                           [success |-> TRUE, token |-> "admin-token"])
            ELSE ObjectRes("login", 401, [error |-> "Invalid credentials"]))
           EXCEPT !.request =
              [IdleReq EXCEPT !.route = "login",
                  !.body = [username |-> username, password |-> password]]]
    /\ UNCHANGED <<clock, orderStore, fileStore, req, lastWrite>>

\* ------------------------------------------------------------ I/O failures

\* What fs.readFile may fail with on a file that is there or not (EACCES
\* stands for every error code other than ENOENT); "none": no such failure.
ReadFaults == {"none", "EACCES"}

\* The error, if any, in the try block of readOrders / readFiles: that of
\* fs.readFile, ENOENT for a file that does not exist, or the SyntaxError
\* of JSON.parse on content that is no JSON.
ReadError(exists, corrupt, fault) ==
    IF fault # "none" THEN fault
    ELSE IF ~exists THEN "ENOENT"
    ELSE IF corrupt THEN "SyntaxError"
    ELSE "none"

\* Faulty variant of Rethrown: the catch rethrows every error.
RethrownAlways(error) == error # "none"

\* The catch of readOrders / readFiles: ENOENT returns [], every other
\* error is thrown on.
Rethrown(error) == error # "none" /\ error # "ENOENT"

\* The message of each handler's catch.
FailureMessage(route) ==
    CASE route = "listOrders" -> "Failed to read orders"
      [] route = "createOrder" -> "Failed to create order"
      [] route = "updateStatus" -> "Failed to update order"
      [] route = "deleteOrders" -> "Failed to delete orders"
      [] route = "upload" -> "Failed to upload files"
      [] route = "listFiles" -> "Failed to read files"
      [] route = "deleteFiles" -> "Failed to delete files"

\* res.status(500).json({ error }) in a handler's catch.  History: the
\* step that threw ("read" or "write") and the error.
InternalError(route, step, error) ==
    [ObjectRes(route, 500, [error |-> FailureMessage(route)])
        EXCEPT !.request = [IdleReq EXCEPT !.route = route, !.pc = step,
                                           !.body = [error |-> error]]]

\* `await readOrders()` throws in list-orders, create-order or
\* update-status: the handler's catch answers 500.
ReadOrdersFail(r) ==
    /\ req[r].pc = "idle"
    /\ \E route \in {"listOrders", "createOrder", "updateStatus"},
          fault \in ReadFaults :
        LET error == ReadError(ordersExists, ordersCorrupt, fault)
        IN /\ Rethrown(error)
           /\ lastRes' = InternalError(route, "read", error)
    /\ UNCHANGED <<clock, orderStore, fileStore, req, lastWrite>>

\* `await writeOrders(...)` throws in create-order, update-status or
\* delete-all-orders: fs.writeFile has left the file as it was, or with
\* part of the new content; the handler's catch answers 500.
WriteOrdersFail(r) ==
    /\ \/ req[r].pc = "write" /\ req[r].route \in {"createOrder", "updateStatus"}
       \/ req[r].pc = "idle"
    /\ lastRes' = InternalError(IF req[r].pc = "idle" THEN "deleteOrders"
                                ELSE req[r].route, "write", "EIO")
    /\ \E partial \in BOOLEAN :
        IF partial
        THEN /\ ordersExists' = TRUE
             /\ ordersFile' = <<>>
             /\ ordersCorrupt' = TRUE
        ELSE UNCHANGED orderStore
    /\ req' = [req EXCEPT ![r] = IdleReq]
    /\ UNCHANGED <<clock, fileStore, lastWrite>>

\* `await readFiles()` throws in list-files, delete-all-files or upload
\* (after multer has stored the files): the handler's catch answers 500.
ReadFilesFail(r) ==
    /\ \/ req[r].pc = "idle"
       \/ /\ req[r].pc = "store"
          /\ Len(req[r].stored) = Len(req[r].incoming)
          /\ Len(req[r].stored) # 0
    /\ \E route \in (IF req[r].pc = "idle" THEN {"listFiles", "deleteFiles"}
                     ELSE {"upload"}),
          fault \in ReadFaults :
        LET error == ReadError(filesExists, filesCorrupt, fault)
        IN /\ Rethrown(error)
           /\ lastRes' = InternalError(route, "read", error)
    /\ req' = [req EXCEPT ![r] = IdleReq]
    /\ UNCHANGED <<clock, orderStore, fileStore, lastWrite>>

\* `await writeFiles(...)` throws in upload or, after the loop, in
\* delete-all-files; the handler's catch answers 500.
WriteFilesFail(r) ==
    /\ \/ req[r].pc = "write" /\ req[r].route = "upload"
       \/ req[r].pc = "unlink" /\ req[r].next > Len(req[r].files)
    /\ lastRes' = InternalError(req[r].route, "write", "EIO")
    /\ \E partial \in BOOLEAN :
        IF partial
        THEN /\ filesExists' = TRUE
             /\ filesFile' = <<>>
             /\ filesCorrupt' = TRUE
        ELSE UNCHANGED <<filesExists, filesFile, filesCorrupt>>
    /\ req' = [req EXCEPT ![r] = IdleReq]
    /\ UNCHANGED <<clock, orderStore, blobs, faults, lastWrite>>

\* ---------------------------------------------------------- upload widget

\* allowedTypes.includes(file.type)
AllowedTypes ==
    { "application/pdf", "application/msword",
      "application/vnd.openxmlformats-officedocument.wordprocessingml.document" }

\* History: how many files of a batch have a type outside the allow-list.
Disallowed(newFiles) ==
    Cardinality({i \in 1..Len(newFiles) : newFiles[i].type \notin AllowedTypes})

\* Faulty variant of isValidFileType: every file passes.
AnyFileType(file) == TRUE

isValidFileType(file) == file.type \in AllowedTypes

\* Faulty variant of EstimatedPages: no minimum of one page.
EstimatedPagesNoMin(file) == file.size \div 50000

\* Math.max(1, Math.floor(file.size / 50000))
EstimatedPages(file) ==
    IF file.size \div 50000 > 1 THEN file.size \div 50000 ELSE 1

\* The loop of calculateTotalPages from index i on, up to the next PDF (its
\* next await) or the end of the list: each file that is not a PDF adds its
\* estimate.
RECURSIVE PassEstimated(_, _, _)
PassEstimated(fileList, i, totalPages) ==
    IF i > Len(fileList) \/ fileList[i].type = "application/pdf"
    THEN [next |-> i, totalPages |-> totalPages]
    ELSE PassEstimated(fileList, i + 1,
                       totalPages + EstimatedPages(fileList[i]))

\* What pdf.numPages may add for a PDF: its page count when pdfjs parses
\* it, the random estimate of the catch otherwise.
PdfPages(file) ==
    IF file.parses THEN {file.numPages} ELSE 1..MaxFallback

\* totalPages > 0 ? `1-${totalPages}` : 'all'
DefaultRange(totalPages) ==
    IF totalPages > 0 THEN "1-" \o ToString(totalPages) ELSE "all"

\* onPageCountChange(totalPages); onPageRangeChange(...)
ReportPages(told, totalPages) ==
    [told EXCEPT !.pageCount = totalPages,
                 !.pageRange = DefaultRange(totalPages)]

\* setFiles(updatedFiles); onFilesChange(updatedFiles); then `await
\* calculateTotalPages(updatedFiles)` up to its first await.  With no PDF
\* in the list the calculation has no await of its own and the report
\* follows in the same task; handleFiles then ends with
\* setIsProcessing(false).
Recalculate(c, kind, updatedFiles) ==
    LET first == PassEstimated(updatedFiles, 1, 0)
        told == [reported EXCEPT !.files = updatedFiles]
    IN /\ heldFiles' = updatedFiles
       /\ IF first.next > Len(updatedFiles)
          THEN /\ reported' = ReportPages(told, first.totalPages)
               /\ calls' = [calls EXCEPT ![c] = IdleCall]
               /\ isProcessing' =
                    IF kind = "handleFiles" THEN FALSE ELSE isProcessing
          ELSE /\ reported' = told
               /\ calls' = [calls EXCEPT ![c] =
                              [@ EXCEPT !.kind = kind,
                                        !.pc = "parse",
                                        !.fileList = updatedFiles,
                                        !.next = first.next,
                                        !.totalPages = first.totalPages]]
               /\ UNCHANGED isProcessing

\* handleFiles(newFiles) up to its first await: the drop area takes no
\* input while isProcessing.  The files of a type not allowed are filtered
\* out; with none left the call ends here.  History: lastCall.
HandleFiles(c) ==
    /\ calls[c].pc = "idle"
    /\ ~isProcessing
    /\ \E newFiles \in Drops :
        LET validFiles == SelectSeq(newFiles, isValidFileType)
        IN /\ Len(heldFiles) + Len(validFiles) <= MaxHeld
           /\ lastCall' = [kind |-> "handleFiles", given |-> Len(newFiles),
                           disallowed |-> Disallowed(newFiles)]
           /\ IF Len(validFiles) > 0
              THEN /\ isProcessing' = TRUE
                   /\ calls' = [calls EXCEPT ![c] =
                                  [IdleCall EXCEPT !.kind = "handleFiles",
                                                   !.pc = "save",
                                                   !.closure = heldFiles,
                                                   !.validFiles = validFiles]]
              ELSE UNCHANGED <<isProcessing, calls>>
    /\ UNCHANGED <<heldFiles, selectedPages, preview, storage, reported,
                   toggled>>

\* `await fileStorage.saveFile(file)` for the next valid file: it is saved,
\* or the call throws and the catch goes on.  After the last one the list
\* captured when the call began, with the valid files appended, is set and
\* reported, and the page count calculated.
SaveFile(c) ==
    /\ calls[c].pc = "save"
    /\ LET file == calls[c].validFiles[calls[c].saved + 1]
       IN \E saved \in BOOLEAN :
            storage' = IF saved THEN storage \cup {file.name} ELSE storage
    /\ IF calls[c].saved + 1 < Len(calls[c].validFiles)
       THEN /\ calls' = [calls EXCEPT ![c].saved = @ + 1]
            /\ UNCHANGED <<heldFiles, reported, isProcessing>>
       ELSE Recalculate(c, "handleFiles",
                        calls[c].closure \o calls[c].validFiles)
    /\ UNCHANGED <<selectedPages, preview, toggled, lastCall>>

\* calculateTotalPages: pdfjs has parsed (or failed to parse) the PDF the
\* loop is at; the loop goes on to the next PDF, or the total is returned
\* and reported.
ParsePdf(c) ==
    /\ calls[c].pc = "parse"
    /\ \E numPages \in PdfPages(calls[c].fileList[calls[c].next]) :
        LET rest == PassEstimated(calls[c].fileList, calls[c].next + 1,
                                  calls[c].totalPages + numPages)
        IN IF rest.next > Len(calls[c].fileList)
           THEN /\ reported' = ReportPages(reported, rest.totalPages)
                /\ calls' = [calls EXCEPT ![c] = IdleCall]
                /\ isProcessing' =
                     IF calls[c].kind = "handleFiles" THEN FALSE
                     ELSE isProcessing
           ELSE /\ calls' = [calls EXCEPT ![c].next = rest.next,
                                          ![c].totalPages = rest.totalPages]
                /\ UNCHANGED <<reported, isProcessing>>
    /\ UNCHANGED <<heldFiles, selectedPages, preview, storage, toggled,
                   lastCall>>

\* files.filter((_, i) => i !== index), 1-based.
WithoutIndex(list, index) ==
    [i \in 1..(Len(list) - 1) |-> IF i < index THEN list[i] ELSE list[i + 1]]

\* removeFile(index) up to its first await.  History: lastCall.
RemoveFile(c) ==
    /\ calls[c].pc = "idle"
    /\ \E index \in 1..Len(heldFiles) :
        LET updatedFiles == WithoutIndex(heldFiles, index)
        IN /\ lastCall' = [kind |-> "removeFile", given |-> 0,
                           disallowed |-> 0]
           /\ IF Len(updatedFiles) = 0
              THEN /\ heldFiles' = updatedFiles
                   /\ reported' = [files |-> updatedFiles, pageCount |-> 0,
                                   pageRange |-> "all"]
                   /\ UNCHANGED <<calls, isProcessing>>
              ELSE Recalculate(c, "removeFile", updatedFiles)
    /\ UNCHANGED <<selectedPages, preview, storage, toggled>>

\* handlePreview(e, file): the button is rendered for the PDFs of the list.
HandlePreview ==
    /\ \E i \in 1..Len(heldFiles) :
        /\ heldFiles[i].type = "application/pdf"
        /\ preview' = [preview EXCEPT !.open = TRUE,
                                      !.selectedFile = heldFiles[i],
                                      !.loaded = FALSE]
    /\ UNCHANGED <<heldFiles, selectedPages, isProcessing, calls, storage,
                   reported, toggled, lastCall>>

\* onDocumentLoadSuccess({ numPages }): the Document has loaded the selected
\* file and renders one overlay per page.
OnDocumentLoadSuccess ==
    /\ preview.open
    /\ ~preview.loaded
    /\ preview.selectedFile.parses
    /\ preview' = [preview EXCEPT !.numPages = preview.selectedFile.numPages,
                                  !.loaded = TRUE]
    /\ UNCHANGED <<heldFiles, selectedPages, isProcessing, calls, storage,
                   reported, toggled, lastCall>>

\* onOpenChange={setPreviewOpen}: the dialog is closed.
ClosePreview ==
    /\ preview.open
    /\ preview' = [preview EXCEPT !.open = FALSE, !.loaded = FALSE]
    /\ UNCHANGED <<heldFiles, selectedPages, isProcessing, calls, storage,
                   reported, toggled, lastCall>>

\* Faulty variant of SortPages: the pages in the order they were selected.
PagesAsSelected(pages) == pages

\* pages.sort((a, b) => a - b)
RECURSIVE SortPages(_)
SortPages(pages) ==
    IF Len(pages) <= 1 THEN pages
    ELSE LET head == Head(pages)
             rest == SortPages(Tail(pages))
             Before(p) == p < head
             NotBefore(p) == ~(p < head)
         IN SelectSeq(rest, Before) \o <<head>> \o SelectSeq(rest, NotBefore)

\* pages.join(',')
RECURSIVE Join(_)
Join(pages) ==
    IF Len(pages) = 0 THEN ""
    ELSE IF Len(pages) = 1 THEN ToString(pages[1])
    ELSE ToString(pages[1]) \o "," \o Join(Tail(pages))

\* handlePageSelect(pageNum), a click on the overlay of a rendered page.
\* History: toggled.
HandlePageSelect ==
    /\ preview.open
    /\ preview.loaded
    /\ \E pageNum \in 1..preview.numPages :
        LET Has(p) == p = pageNum
            Other(p) == p # pageNum
            newSelectedPages ==
                IF Len(SelectSeq(selectedPages, Has)) > 0
                THEN SelectSeq(selectedPages, Other)
                ELSE Append(selectedPages, pageNum)
        IN /\ selectedPages' = newSelectedPages
           /\ reported' =
                [reported EXCEPT !.pageRange =
                    IF Len(newSelectedPages) > 0
                    THEN Join(SortPages(newSelectedPages))
                    ELSE "all"]
           /\ toggled' = IF pageNum \in toggled THEN toggled \ {pageNum}
                         ELSE toggled \cup {pageNum}
    /\ UNCHANGED <<heldFiles, preview, isProcessing, calls, storage, lastCall>>

\* --------------------------------------------------------- specifications

\* History of the orders handled one at a time: what the store should hold.
SetStatusOf(list, orderId, status) ==
    [i \in 1..Len(list) |->
        IF Get(list[i], "orderId") = orderId
        THEN JsonObject(SetField(list[i], "status", status))
        ELSE list[i]]

NoteCreate(r) ==
    /\ created' = Append(created, JsonObject(req[r].newOrder))
    /\ cleared' = FALSE

NoteUpdate(r) ==
    /\ created' = SetStatusOf(created, req[r].orderId,
                              Get(req[r].body, "status"))
    /\ UNCHANGED cleared

NoteDelete ==
    /\ created' = <<>>
    /\ cleared' = TRUE

\* The slot of a server that is sent one request at a time.
OneAtATime == {1}

\* The order routes, one request at a time.
OrdersNext ==
    \/ Tick /\ UNCHANGED <<history, widget>>
    \/ \E r \in OneAtATime :
        \/ ListOrders(r) /\ UNCHANGED <<history, widget>>
        \/ CreateRead(r) /\ UNCHANGED <<history, widget>>
        \/ CreateWrite(r) /\ NoteCreate(r) /\ UNCHANGED widget
        \/ UpdateNotFound(r) /\ UNCHANGED <<history, widget>>
        \/ UpdateRead(r) /\ UNCHANGED <<history, widget>>
        \/ UpdateWrite(r) /\ NoteUpdate(r) /\ UNCHANGED widget
        \/ DeleteOrders(r) /\ NoteDelete /\ UNCHANGED widget

OrdersSpec == Init /\ [][OrdersNext]_vars

\* The order routes that write, requests overlapping.
RaceNext ==
    \/ Tick /\ UNCHANGED <<history, widget>>
    \/ \E r \in Slots :
        \/ CreateRead(r) /\ UNCHANGED <<history, widget>>
        \/ CreateWrite(r) /\ UNCHANGED <<history, widget>>
        \/ UpdateRead(r) /\ UNCHANGED <<history, widget>>
        \/ UpdateWrite(r) /\ UNCHANGED <<history, widget>>
        \/ DeleteOrders(r) /\ UNCHANGED <<history, widget>>

RaceSpec == Init /\ [][RaceNext]_vars

\* The file routes, one request at a time.
FilesNext ==
    \/ Tick /\ UNCHANGED <<history, widget>>
    \/ \E r \in OneAtATime :
        \/ UploadBegin(r) /\ UNCHANGED <<history, widget>>
        \/ UploadStore(r) /\ UNCHANGED <<history, widget>>
        \/ UploadEmpty(r) /\ UNCHANGED <<history, widget>>
        \/ UploadRead(r) /\ UNCHANGED <<history, widget>>
        \/ UploadWrite(r) /\ UNCHANGED <<history, widget>>
        \/ ListFiles(r) /\ UNCHANGED <<history, widget>>
        \/ DeleteFilesRead(r) /\ UNCHANGED <<history, widget>>
        \/ DeleteFilesUnlink(r) /\ UNCHANGED <<history, widget>>
        \/ DeleteFilesUnlinkFail(r) /\ UNCHANGED <<history, widget>>
        \/ DeleteFilesWrite(r) /\ UNCHANGED <<history, widget>>

FilesSpec == Init /\ [][FilesNext]_vars

\* The login among creations of orders and uploads, one request at a time.
\* The login handler reads no clock; the records around it are all stamped
\* within one millisecond.
LoginNext ==
    \/ \E r \in OneAtATime :
        \/ Login(r) /\ UNCHANGED <<history, widget>>
        \/ CreateRead(r) /\ UNCHANGED <<history, widget>>
        \/ CreateWrite(r) /\ NoteCreate(r) /\ UNCHANGED widget
        \/ UploadBegin(r) /\ UNCHANGED <<history, widget>>
        \/ UploadStore(r) /\ UNCHANGED <<history, widget>>
        \/ UploadRead(r) /\ UNCHANGED <<history, widget>>
        \/ UploadWrite(r) /\ UNCHANGED <<history, widget>>

LoginSpec == Init /\ [][LoginNext]_vars

\* No call of the widget is in flight.
Quiet == \A c \in CallSlots : calls[c].pc = "idle"

\* The slot of a widget whose user waits for each call to end.
OneCall == {1}

\* The widget's list: files added and removed, each call ending before the
\* user acts again.
WidgetNext ==
    \/ \E c \in OneCall :
        \/ Quiet /\ HandleFiles(c) /\ UNCHANGED server
        \/ SaveFile(c) /\ UNCHANGED server
        \/ ParsePdf(c) /\ UNCHANGED server
        \/ Quiet /\ RemoveFile(c) /\ UNCHANGED server

WidgetSpec == Init /\ [][WidgetNext]_vars

\* The widget's list and its preview: files added and removed while the
\* dialog is closed, each call ending before the user acts again, and pages
\* selected in the preview.
SelectNext ==
    \/ \E c \in OneCall :
        \/ Quiet /\ ~preview.open /\ HandleFiles(c) /\ UNCHANGED server
        \/ SaveFile(c) /\ UNCHANGED server
        \/ ParsePdf(c) /\ UNCHANGED server
        \/ Quiet /\ ~preview.open /\ RemoveFile(c) /\ UNCHANGED server
    \/ Quiet /\ HandlePreview /\ UNCHANGED server
    \/ OnDocumentLoadSuccess /\ UNCHANGED server
    \/ Quiet /\ ClosePreview /\ UNCHANGED server
    \/ Quiet /\ HandlePageSelect /\ UNCHANGED server

SelectSpec == Init /\ [][SelectNext]_vars

\* The widget's list, the user acting while calls are in flight.
WidgetRaceNext ==
    \/ \E c \in CallSlots :
        \/ HandleFiles(c) /\ UNCHANGED server
        \/ SaveFile(c) /\ UNCHANGED server
        \/ ParsePdf(c) /\ UNCHANGED server
        \/ RemoveFile(c) /\ UNCHANGED server

WidgetRaceSpec == Init /\ [][WidgetRaceNext]_vars

\* No request has touched the order store, or the file store.
OrdersUntouched ==
    /\ ~ordersExists
    /\ \A r \in Slots :
          req[r].route \notin {"createOrder", "updateStatus"}
    /\ lastRes.route \notin {"listOrders", "createOrder", "updateStatus",
                             "deleteOrders"}

FilesUntouched ==
    /\ ~filesExists
    /\ blobs = {}
    /\ \A r \in Slots : req[r].route \notin {"upload", "deleteFiles"}
    /\ lastRes.route \notin {"listFiles", "upload", "deleteFiles"}

\* Either store with reads and writes that may fail, one request at a
\* time.  The two stores share no file and no handler: a run uses one of
\* them.
FaultsNext ==
    \/ Tick /\ UNCHANGED <<history, widget>>
    \/ \E r \in OneAtATime :
        \/ FilesUntouched /\ ListOrders(r)
              /\ UNCHANGED <<history, widget>>
        \/ FilesUntouched /\ CreateRead(r)
              /\ UNCHANGED <<history, widget>>
        \/ FilesUntouched /\ CreateWrite(r)
              /\ UNCHANGED <<history, widget>>
        \/ FilesUntouched /\ UpdateRead(r)
              /\ UNCHANGED <<history, widget>>
        \/ FilesUntouched /\ UpdateWrite(r)
              /\ UNCHANGED <<history, widget>>
        \/ FilesUntouched /\ DeleteOrders(r)
              /\ UNCHANGED <<history, widget>>
        \/ FilesUntouched /\ ReadOrdersFail(r)
              /\ UNCHANGED <<history, widget>>
        \/ FilesUntouched /\ WriteOrdersFail(r)
              /\ UNCHANGED <<history, widget>>
    \/ \E r \in OneAtATime :
        \/ OrdersUntouched /\ UploadBegin(r)
              /\ UNCHANGED <<history, widget>>
        \/ OrdersUntouched /\ UploadStore(r)
              /\ UNCHANGED <<history, widget>>
        \/ OrdersUntouched /\ UploadEmpty(r)
              /\ UNCHANGED <<history, widget>>
        \/ OrdersUntouched /\ UploadRead(r)
              /\ UNCHANGED <<history, widget>>
        \/ OrdersUntouched /\ UploadWrite(r)
              /\ UNCHANGED <<history, widget>>
        \/ OrdersUntouched /\ ListFiles(r)
              /\ UNCHANGED <<history, widget>>
        \/ OrdersUntouched /\ DeleteFilesRead(r)
              /\ UNCHANGED <<history, widget>>
        \/ OrdersUntouched /\ DeleteFilesUnlink(r)
              /\ UNCHANGED <<history, widget>>
        \/ OrdersUntouched /\ DeleteFilesUnlinkFail(r) /\ faults' = faults
              /\ UNCHANGED <<history, widget>>
        \/ OrdersUntouched /\ DeleteFilesWrite(r)
              /\ UNCHANGED <<history, widget>>
        \/ OrdersUntouched /\ ReadFilesFail(r)
              /\ UNCHANGED <<history, widget>>
        \/ OrdersUntouched /\ WriteFilesFail(r)
              /\ UNCHANGED <<history, widget>>

FaultsSpec == Init /\ [][FaultsNext]_vars

\* The slots of a client that uploads and of an administrator who deletes
\* all files, each sending one request at a time.
Uploader == {1}
Cleaner == {MaxReq}

\* An upload and a delete-all-files overlapping, with no I/O failure: an
\* unlink fails only on a blob that is not there.
FilesRaceNext ==
    \/ Tick /\ UNCHANGED <<history, widget>>
    \/ \E r \in Uploader :
        \/ UploadBegin(r) /\ UNCHANGED <<history, widget>>
        \/ UploadStore(r) /\ UNCHANGED <<history, widget>>
        \/ UploadEmpty(r) /\ UNCHANGED <<history, widget>>
        \/ UploadRead(r) /\ UNCHANGED <<history, widget>>
        \/ UploadWrite(r) /\ UNCHANGED <<history, widget>>
    \/ \E r \in Cleaner :
        \/ DeleteFilesRead(r) /\ UNCHANGED <<history, widget>>
        \/ DeleteFilesUnlink(r) /\ UNCHANGED <<history, widget>>
        \/ DeleteFilesUnlinkFail(r) /\ faults' = faults
              /\ UNCHANGED <<history, widget>>
        \/ DeleteFilesWrite(r) /\ UNCHANGED <<history, widget>>

FilesRaceSpec == Init /\ [][FilesRaceNext]_vars

\* ----------------------------------------------------------------- claims

\* A step in which slot r sends its response and becomes free.
Answers(r) == req[r].pc # "idle" /\ req'[r].pc = "idle"

\* The orderIds of a list are pairwise different.
DistinctOrderIds(list) ==
    \A i, j \in 1..Len(list) :
        i # j => Get(list[i], "orderId") # Get(list[j], "orderId")

\* C1: no two orders in the store ever share an orderId (the orderId of a
\* new order differs from that of every order present when it is created).
\* The code stamps `ORD-${Date.now()}`: two orders created in the same
\* millisecond get the same orderId.
C1_OrderIdsUnique == DistinctOrderIds(readOrders)

\* C2: create-order, for any client body (also one carrying orderId,
\* orderDate or status), stamps status "pending" and the server's orderId
\* and orderDate, passes every other client field through, persists the
\* previous list with that record appended, and responds with that record.
C2_CreateStampsAndAppends ==
    [][\A r \in OneAtATime :
        /\ (req[r].pc = "idle" /\ req'[r].route = "createOrder") =>
             LET body == req'[r].body
                 newOrder == req'[r].newOrder
             IN /\ body \in OrderBodies
                /\ DOMAIN newOrder =
                     (DOMAIN body) \cup {"orderId", "orderDate", "status"}
                /\ newOrder.status = "pending"
                /\ newOrder.orderId = "ORD-" \o DateNow(clock)
                /\ newOrder.orderDate = ToISOString(clock)
                /\ \A k \in (DOMAIN body) \ {"orderId", "orderDate", "status"} :
                      newOrder[k] = body[k]
        /\ (req[r].route = "createOrder" /\ Answers(r)) =>
             /\ ordersExists'
             /\ ordersFile' = Append(readOrders, req[r].newOrder)
             /\ lastRes'.route = "createOrder"
             /\ lastRes'.status = 200
             /\ lastRes'.kind = "object"
             /\ lastRes'.body = <<req[r].newOrder>>]_vars

\* C2's case: an order whose client body carried orderId, orderDate and
\* status of its own was appended to a store already holding an order.
C2_Witness ==
    /\ lastRes.route = "createOrder"
    /\ lastRes.body[1].name = "bob"
    /\ lastRes.body[1].status = "pending"
    /\ Len(ordersFile) = 2
    /\ ordersFile[2] = lastRes.body[1]

\* C3: update-status with an orderId that matches no order answers 404 and
\* leaves the persisted list as it was (nothing is written); a request
\* that goes on to write is one whose orderId matched.
C3_UnknownOrderIsNotFound ==
    /\ [](\A r \in OneAtATime :
            req[r].route = "updateStatus" =>
              \E i \in 1..Len(readOrders) :
                 readOrders[i].orderId = req[r].orderId)
    /\ [][(lastRes'.route = "updateStatus" /\ lastRes'.status = 404
             /\ lastRes' # lastRes) =>
            /\ UNCHANGED <<ordersExists, ordersFile>>
            /\ \A i \in 1..Len(readOrders) :
                 readOrders[i].orderId # lastRes'.request.orderId]_vars

\* C3's case: a 404 for an unknown orderId while the store holds an order.
C3_Witness ==
    /\ lastRes.route = "updateStatus"
    /\ lastRes.status = 404
    /\ lastRes.request.orderId = "ORD-none"
    /\ Len(ordersFile) >= 1

\* C4: after a successful delete-all-orders, whatever the store held, the
\* store is the empty list, and a list-orders request with no create in
\* between returns an empty sequence.
C4_DeleteAllEmptiesStore ==
    /\ (lastRes.route = "deleteOrders" /\ lastRes.status = 200) =>
          (ordersExists /\ ordersFile = <<>>)
    /\ (lastRes.route = "listOrders" /\ cleared) =>
          (lastRes.status = 200 /\ lastRes.body = <<>>)

\* C4's case: the store held orders, delete-all replaced it, and the
\* list-orders request that followed returned [].
C4_Witness ==
    /\ lastWrite.route = "deleteOrders"
    /\ Len(lastWrite.pre) = MaxOrders
    /\ cleared
    /\ lastRes.route = "listOrders"
    /\ lastRes.body = <<>>

\* C5: an upload request that carries zero files answers 400 and leaves
\* the file metadata list (and files.json itself) untouched; no request
\* with zero files reaches the read-modify-write of files.json.
C5_EmptyUploadIsBadRequest ==
    /\ [](\A r \in OneAtATime :
            (req[r].route = "upload" /\ req[r].pc = "write") =>
               Len(req[r].incoming) >= 1)
    /\ [][\A r \in OneAtATime :
            (req[r].route = "upload" /\ Len(req[r].incoming) = 0
               /\ Answers(r)) =>
              /\ lastRes'.status = 400
              /\ lastRes'.body = <<[error |-> "No files uploaded"]>>
              /\ UNCHANGED <<filesExists, filesFile, blobs>>]_vars

\* C5's case: a 400 for an empty upload while the list holds records.
C5_Witness ==
    /\ lastRes.route = "upload"
    /\ lastRes.status = 400
    /\ Len(filesFile) >= 1

\* The paths of a metadata list are pairwise different.
DistinctPaths(list) ==
    \A i, j \in 1..Len(list) : i # j => list[i].path # list[j].path

\* The N records an upload of `incoming` appends to `before`: one per file,
\* in the order submitted, after the earlier records.
AppendsInOrder(before, incoming, after) ==
    /\ Len(after) = Len(before) + Len(incoming)
    /\ SubSeq(after, 1, Len(before)) = before
    /\ \A i \in 1..Len(incoming) :
          LET record == after[Len(before) + i]
          IN /\ record.name = incoming[i].originalname
             /\ record.size = incoming[i].size
             /\ record.type = incoming[i].mimetype

\* C6: an upload of N >= 1 files appends exactly N metadata records after
\* the earlier ones, in the order submitted, each with a generated path
\* distinct from that of every other record of the list, and list-files
\* returns the list so extended.  The code derives the name from the
\* millisecond, a random draw and the original name: two files of one name
\* stored in the same millisecond with equal draws get one path.
C6_UploadAppendsDistinctPaths ==
    /\ [](lastRes.route = "listFiles" => lastRes.body = readFiles)
    /\ [][\A r \in OneAtATime :
            (req[r].route = "upload" /\ req[r].pc = "write" /\ Answers(r)) =>
              /\ AppendsInOrder(readFiles, req[r].incoming, filesFile')
              /\ lastRes'.body = SubSeq(filesFile', Len(readFiles) + 1,
                                        Len(filesFile'))
              /\ DistinctPaths(filesFile')]_vars

\* What of C6 the code does keep: N records appended in the order
\* submitted, and listed so.
C6_UploadAppendsInOrder ==
    /\ [](lastRes.route = "listFiles" => lastRes.body = readFiles)
    /\ [][\A r \in OneAtATime :
            (req[r].route = "upload" /\ req[r].pc = "write" /\ Answers(r)) =>
              /\ AppendsInOrder(readFiles, req[r].incoming, filesFile')
              /\ lastRes'.body = SubSeq(filesFile', Len(readFiles) + 1,
                                        Len(filesFile'))]_vars

\* C7: delete-all-files, whichever blob deletions fail, still attempts the
\* deletion of every blob the list references, in order, then empties the
\* metadata list and returns the confirmation; a failed deletion never
\* aborts the batch or produces an error response.
C7_DeleteAllFilesBestEffort ==
    lastRes.route = "deleteFiles" =>
        LET files == lastRes.request.files
            attempts == lastRes.request.attempts
        IN /\ lastRes.status = 200
           /\ lastRes.body = <<[message |-> "All files deleted"]>>
           /\ filesExists
           /\ filesFile = <<>>
           /\ Len(attempts) = Len(files)
           /\ \A i \in 1..Len(files) : attempts[i][1] = files[i].serverPath

\* C7's case: a deletion failed, the deletion after it was attempted and
\* succeeded, and the confirmation was sent.
C7_Witness ==
    /\ lastRes.route = "deleteFiles"
    /\ lastRes.status = 200
    /\ Len(lastRes.request.attempts) = 2
    /\ ~lastRes.request.attempts[1][2]
    /\ lastRes.request.attempts[2][2]
    /\ filesFile = <<>>

\* C8: the login returns success with the token exactly when username and
\* password both equal the fixed pair; every other pair (wrong username,
\* wrong password, missing field) returns 401, on which the client wrapper
\* throws; the login changes neither store.
C8_LoginIffFixedPair ==
    /\ [](lastRes.route = "login" =>
            LET username == lastRes.request.body.username
                password == lastRes.request.body.password
                fixed == username = "admin" /\ password = "xerox123"
            IN /\ fixed =>
                    /\ lastRes.status = 200
                    /\ lastRes.body =
                         <<[success |-> TRUE, token |-> "admin-token"]>>
                    /\ AdminLogin(lastRes).outcome = "return"
               /\ ~fixed =>
                    /\ lastRes.status = 401
                    /\ lastRes.body = <<[error |-> "Invalid credentials"]>>
                    /\ AdminLogin(lastRes).outcome = "throw")
    /\ [][(lastRes'.route = "login" /\ lastRes' # lastRes) =>
            UNCHANGED <<ordersExists, ordersFile, filesExists, filesFile,
                        blobs>>]_vars

\* C8's case: a successful login while both stores hold records.
C8_Witness ==
    /\ lastRes.route = "login"
    /\ lastRes.status = 200
    /\ Len(ordersFile) >= 1
    /\ Len(filesFile) >= 1

\* C8's other case: a wrong password under the right username is refused.
C8_WitnessRefused ==
    /\ lastRes.route = "login"
    /\ lastRes.status = 401
    /\ lastRes.request.body.username = "admin"

\* What the request of slot r makes of the list `orders`.
EffectOn(r, orders) ==
    IF req[r].route = "createOrder"
    THEN Append(orders, req[r].newOrder)
    ELSE [orders EXCEPT ![req[r].orderIndex] =
            SetField(@, "status", Get(req[r].body, "status"))]

\* C9: when two mutating requests overlap so that both read the list
\* before either writes, the store after both holds only the effect of the
\* one that wrote last, applied to the list as it was before the first
\* writer's write: the first writer's change is lost, though both were
\* answered 200.
C9_LastWriterWins ==
    [][\A r \in Slots :
        (/\ req[r].pc = "write"
         /\ Answers(r)
         /\ req[r].overlapped = 1
         /\ lastWrite.route \in {"createOrder", "updateStatus"}) =>
           /\ lastRes.status = 200
           /\ lastRes'.status = 200
           /\ ordersFile' = JsonArray(EffectOn(r, lastWrite.pre))]_vars

\* C9's case: two creates overlapped; the store holds the one order of the
\* last writer, and the order the first writer wrote is gone.
C9_Witness ==
    /\ lastWrite.route = "createOrder"
    /\ lastRes.route = "createOrder"
    /\ Len(lastWrite.pre) = 1
    /\ ordersFile = lastRes.body
    /\ lastWrite.pre[1] # ordersFile[1]

\* C10: with order requests handled one at a time, list-orders returns
\* exactly the orders created since the last delete-all, in creation order,
\* each as stamped and with the status last set by a successful
\* update-status on its orderId ("pending" if none).  The code sets the
\* status of the first order with that orderId only, and orderIds repeat
\* (C1).
C10_ListReturnsHistory ==
    lastRes.route = "listOrders" =>
        (lastRes.status = 200 /\ lastRes.body = created)

\* The page count of a list whose PDFs all parse: the pages of the PDFs
\* plus, for each other file, max(1, floor(size / 50000)).
RECURSIVE TruePages(_)
TruePages(list) ==
    IF Len(list) = 0 THEN 0
    ELSE LET file == Head(list)
             floor == file.size \div 50000
         IN (IF file.type = "application/pdf" THEN file.numPages
             ELSE IF floor >= 1 THEN floor ELSE 1)
            + TruePages(Tail(list))

\* Every PDF of the list parses.
AllParse(list) ==
    \A i \in 1..Len(list) :
        list[i].type = "application/pdf" => list[i].parses

\* The widget has reported a page count.
HasReported == reported.pageCount # -1

\* C11: for a held list in which every PDF parses, the page count reported
\* is the sum of the PDFs' true page counts and of max(1, floor(S/50000))
\* for each other file of size S; the range reported with it is
\* "1-<total>" when total > 0 and "all" otherwise; removing the last file
\* reports 0 and "all".
C11_PageCountIsAggregate ==
    /\ [](( /\ Quiet
            /\ HasReported
            /\ AllParse(heldFiles)) =>
             /\ reported.pageCount = TruePages(heldFiles)
             /\ reported.pageRange =
                  (IF reported.pageCount > 0
                   THEN "1-" \o ToString(reported.pageCount) ELSE "all"))
    /\ [][(lastCall'.kind = "removeFile" /\ Len(heldFiles) = 1
             /\ heldFiles' = <<>>) =>
            (reported'.pageCount = 0 /\ reported'.pageRange = "all")]_vars

\* C11's case: a PDF of 4 pages and a Word file of 40000 bytes are held;
\* 4 + max(1, 0) = 5 pages and "1-5" were reported.
C11_Witness ==
    /\ Quiet
    /\ Len(heldFiles) = 2
    /\ heldFiles[1].name = "a.pdf"
    /\ heldFiles[2].name = "b.doc"
    /\ reported.pageCount = 5
    /\ reported.pageRange = "1-5"

\* C11's other case: the last file was removed; 0 and "all" were reported.
C11_WitnessRemoved ==
    /\ lastCall.kind = "removeFile"
    /\ heldFiles = <<>>
    /\ reported.pageCount = 0
    /\ reported.pageRange = "all"

\* The pages of a set in ascending order.
RECURSIVE AscendingList(_)
AscendingList(S) ==
    IF S = {} THEN <<>>
    ELSE LET least == CHOOSE p \in S : \A q \in S : p <= q
         IN <<least>> \o AscendingList(S \ {least})

\* The range string of a selection: its pages ascending, joined by commas;
\* "all" for the empty selection.
RECURSIVE CommaJoined(_)
CommaJoined(list) ==
    IF Len(list) = 0 THEN ""
    ELSE ToString(Head(list))
         \o (IF Len(list) > 1 THEN "," \o CommaJoined(Tail(list)) ELSE "")

RangeOf(S) == IF S = {} THEN "all" ELSE CommaJoined(AscendingList(S))

\* C12: starting from an empty selection, the range string reported after
\* each toggle is the comma-joined ascending list of the pages toggled an
\* odd number of times, and "all" when there is none; these pages are the
\* selection.
C12_ToggleReportsSelection ==
    [][toggled' # toggled =>
        /\ reported'.pageRange = RangeOf(toggled')
        /\ {selectedPages'[i] : i \in 1..Len(selectedPages')} = toggled'
        /\ Len(selectedPages') = Cardinality(toggled')]_vars

\* C12's case: page 4 was selected, then page 2, and "2,4" was reported.
C12_Witness ==
    /\ selectedPages = <<4, 2>>
    /\ toggled = {2, 4}
    /\ reported.pageRange = "2,4"

\* C12's other cases: 2 and 4 selected, 2 deselected: "4"; all deselected
\* again: "all".
C12_WitnessOneLeft ==
    /\ selectedPages = <<4>>
    /\ reported.pageRange = "4"

C12_WitnessNoneLeft ==
    /\ selectedPages = <<>>
    /\ preview.loaded
    /\ reported.pageRange = "all"
    /\ Len(heldFiles) = 1

\* C15: once every calculation in flight has finished, the page count and
\* the default range last reported are those of the files the widget holds
\* (a stale count is only transient).  The code lets a calculation started
\* before a removal report after it, and nothing recomputes afterwards.
C15_StaleCountIsTransient ==
    (/\ Quiet
     /\ HasReported
     /\ AllParse(heldFiles)) =>
        /\ reported.files = heldFiles
        /\ reported.pageCount = TruePages(heldFiles)
        /\ reported.pageRange = DefaultRange(TruePages(heldFiles))

\* C16: every file of the widget's list, and of every list passed to
\* onFilesChange, has one of the three allowed MIME types, and so has every
\* file stored; a batch of disallowed files only leaves the list, the
\* reported page count and range, and the storage unchanged.
C16_OnlyAllowedTypes ==
    /\ [](/\ \A i \in 1..Len(heldFiles) : heldFiles[i].type \in AllowedTypes
          /\ \A i \in 1..Len(reported.files) :
                reported.files[i].type \in AllowedTypes
          /\ \A file \in WidgetFiles :
                file.name \in storage => file.type \in AllowedTypes)
    /\ [][(/\ Quiet
           /\ lastCall'.kind = "handleFiles"
           /\ lastCall'.given = lastCall'.disallowed) =>
            UNCHANGED <<heldFiles, reported, storage, calls, isProcessing>>]_vars

\* C16's case: a batch of disallowed files only was dropped on a widget
\* holding a file, which it still holds.
C16_Witness ==
    /\ lastCall.kind = "handleFiles"
    /\ lastCall.given = MaxHeld
    /\ lastCall.disallowed = MaxHeld
    /\ Len(heldFiles) = 1
    /\ reported.files = heldFiles

\* C17: whenever pages are selected, the range string last reported is the
\* comma-joined ascending list of the selected pages.  The code reports the
\* default range after every add and remove, whatever is selected.
C17_SelectionKeepsRange ==
    Len(selectedPages) > 0 =>
        reported.pageRange =
            RangeOf({selectedPages[i] : i \in 1..Len(selectedPages)})

\* The first place of `list` that holds an order with this orderId.
FirstWith(list, orderId) ==
    CHOOSE i \in 1..Len(list) :
        /\ Get(list[i], "orderId") = orderId
        /\ \A j \in 1..(i - 1) : Get(list[j], "orderId") # orderId

\* C13: update-status with an orderId that matches overwrites the status
\* of the first matching record with the submitted value, persists the
\* list and returns that record; every other field of the record, every
\* other record, and the length and order of the list stay as they were.
\* (A body with no status leaves the record without a status property.)
C13_UpdateChangesOnlyStatus ==
    [][\A r \in OneAtATime :
        (req[r].route = "updateStatus" /\ req[r].pc = "write" /\ Answers(r)) =>
          LET before == readOrders
              after == ordersFile'
              i == FirstWith(before, req[r].orderId)
          IN /\ ordersExists'
             /\ Len(after) = Len(before)
             /\ \A j \in 1..Len(before) : j # i => after[j] = before[j]
             /\ Get(after[i], "status") = Get(req[r].body, "status")
             /\ \A k \in ((DOMAIN before[i]) \cup (DOMAIN after[i])) \ {"status"} :
                   Get(after[i], k) = Get(before[i], k)
             /\ lastRes'.route = "updateStatus"
             /\ lastRes'.status = 200
             /\ lastRes'.body = <<after[i]>>]_vars

\* C13's case: of two orders sharing an orderId the first was set to
\* "completed" and returned, the second left "pending".
C13_Witness ==
    /\ lastRes.route = "updateStatus"
    /\ lastRes.status = 200
    /\ Len(ordersFile) = 2
    /\ ordersFile[1].orderId = ordersFile[2].orderId
    /\ ordersFile[1].status = "completed"
    /\ ordersFile[2].status = "pending"
    /\ lastRes.body = <<ordersFile[1]>>

\* The routes of the two stores.
OrderRoutes == {"listOrders", "createOrder", "updateStatus", "deleteOrders"}
FileRoutes == {"listFiles", "upload", "deleteFiles"}

\* C14: for both stores a missing JSON file is read as the empty list (list
\* returns [], create and upload append to the empty list) and is never
\* answered 500; every other read or write failure is answered 500 with the
\* handler's message; a request that fails on its read writes nothing and
\* ends, the persisted stores staying as they were.
C14_MissingIsEmptyOthersFail ==
    /\ [](lastRes.status = 500 =>
            /\ lastRes.route \in OrderRoutes \cup FileRoutes
            /\ lastRes.request.body.error \notin {"none", "ENOENT"}
            /\ lastRes.kind = "object"
            /\ lastRes.body = <<[error |-> FailureMessage(lastRes.route)]>>)
    /\ [][/\ (~ordersExists /\ lastRes' # lastRes
                /\ lastRes'.route = "listOrders" /\ lastRes'.status = 200) =>
               lastRes'.body = <<>>
          /\ (~filesExists /\ lastRes' # lastRes
                /\ lastRes'.route = "listFiles" /\ lastRes'.status = 200) =>
               lastRes'.body = <<>>
          /\ \A r \in OneAtATime :
               /\ (~ordersExists /\ req[r].pc = "idle"
                     /\ req'[r].route = "createOrder") =>
                    req'[r].orders = <<req'[r].newOrder>>
               /\ (~filesExists /\ req[r].pc = "store"
                     /\ req'[r].pc = "write") =>
                    req'[r].files = req'[r].uploadedFiles
               /\ (lastRes' # lastRes /\ lastRes'.status = 500
                     /\ lastRes'.request.pc = "read") =>
                    /\ req'[r].pc = "idle"
                    /\ UNCHANGED <<ordersExists, ordersFile, ordersCorrupt,
                                   filesExists, filesFile, filesCorrupt>>
               /\ (lastRes' # lastRes
                     /\ Get(lastRes'.request.body, "error") \in
                          {"EACCES", "SyntaxError", "EIO"}) =>
                    /\ lastRes'.status = 500
                    /\ req'[r].pc = "idle"]_vars

\* C14's case: a read of orders.json failed while it held an order; 500
\* was answered and the file still holds the order.
C14_Witness ==
    /\ lastRes.status = 500
    /\ lastRes.request.pc = "read"
    /\ lastRes.request.body.error = "EACCES"
    /\ lastRes.route = "createOrder"
    /\ Len(ordersFile) >= 1
    /\ ~ordersCorrupt

\* C14's other cases: orders.json is missing and list-orders returned [];
\* a failed write was answered 500.
C14_WitnessMissing ==
    /\ ~ordersExists
    /\ lastRes.route = "listOrders"
    /\ lastRes.status = 200
    /\ lastRes.body = <<>>

C14_WitnessWrite ==
    /\ lastRes.status = 500
    /\ lastRes.request.pc = "write"
    /\ lastRes.route = "upload"
    /\ filesCorrupt

\* C18: whenever no upload and no delete-all-files is in progress, every
\* metadata record references a blob that is in uploads/, and every blob in
\* uploads/ is referenced by a record.  The code reads, unlinks and writes
\* with no exclusion between requests.
C18_NoDanglingNoOrphans ==
    (\A r \in Slots : req[r].pc = "idle") =>
        /\ \A i \in 1..Len(readFiles) : readFiles[i].serverPath \in blobs
        /\ \A blob \in blobs :
              \E i \in 1..Len(readFiles) : readFiles[i].serverPath = blob
====
